---- MODULE Spec2Model ----
(***************************************************************************)
(* A model of the akaquiz game session (GameService), of the Socket.IO     *)
(* transport that drives it and of the per-question countdown timer.       *)
(*                                                                         *)
(* Times are integers in milliseconds.  The seconds that the code handles  *)
(* as floating point numbers (timeElapsed) are kept as milliseconds, so    *)
(* that "t seconds" of the code is "1000 * t" here.                        *)
(***************************************************************************)
EXTENDS Integers, Sequences, FiniteSets, TLC

VARIABLES
  \* ---- GameService fields (src/src/services/gameService.js, constructor)
  quizData,               \* sequence of questions
  currentQuestionIndex,   \* -1 .. Len(quizData) - 1, 0-based as in the code
  votes,                  \* answerIndex -> count, only the keys that were set
  scores,                 \* nickname -> cumulative score, only the keys set
  answeredUsers,          \* set of nicknames
  isQuestionActive,
  questionStartTime,
  customTimeLimit,        \* seconds; Null when no override
  isPaused,
  pauseStartTime,
  totalPausedTime,
  answerAnalytics,
  \* ---- the environment
  now,                    \* Date.now()
  \* ---- the transport (setupSocketRoutes)
  sockets,                \* the connection objects
  activeSockets,          \* keys of the activeSockets Map
  currentTimer,           \* 0 (null) or the timer instance it refers to
  timers,                 \* the startQuestionTimer closures
  pendingLaunch,          \* due times of setTimeout(launchNextQuestion, 500)
  \* ---- observation of the last call
  last                    \* the operation that ran last, and what it returned

svars == <<quizData, currentQuestionIndex, votes, scores, answeredUsers,
           isQuestionActive, questionStartTime, customTimeLimit, isPaused,
           pauseStartTime, totalPausedTime, answerAnalytics>>

tvars == <<sockets, activeSockets, currentTimer, timers, pendingLaunch>>

vars == <<svars, now, tvars, last>>

-----------------------------------------------------------------------------
(* Program constants *)

\* config.game.timeLimit
TIME_LIMIT_DEFAULT == 15

\* config.game.scoring.maxScore
MAX_SCORE == 100

\* config.game.scoring.minScore
MIN_SCORE == 20

\* setInterval(..., 1000)
TickMs == 1000

\* setTimeout(launchNextQuestion, 500)
LaunchDelay == 500

\* null / undefined for a number-valued field.  Every read of customTimeLimit
\* is `customTimeLimit || config.game.timeLimit`, which treats null and 0 alike.
Null == 0

-----------------------------------------------------------------------------
(* Bounds of the model *)

\* the clock advances in steps of LaunchDelay ms: at most MaxSteps times under the
\* transport, at most SessionSteps times when the session is driven directly
MaxSteps == 4

SessionSteps == 1

\* the clock step
Step == LaunchDelay


-----------------------------------------------------------------------------
(* Helpers *)

RECURSIVE SumSeq(_)
SumSeq(s) == IF s = <<>> THEN 0 ELSE Head(s) + SumSeq(Tail(s))

Max(a, b) == IF a >= b THEN a ELSE b

Min(a, b) == IF a <= b THEN a ELSE b

\* Math.round(num / den) for den > 0: the nearest integer, halves towards
\* +infinity, i.e. floor(num/den + 1/2)
MathRound(num, den) == (2 * num + den) \div (2 * den)

\* Math.ceil(num / den) for den > 0
MathCeil(num, den) == -((-num) \div den)

\* obj[key] || 0
GetOr0(obj, key) == IF key \in DOMAIN obj THEN obj[key] ELSE 0

\* obj[key] = val
Put(obj, key, val) == [k \in DOMAIN obj \cup {key} |-> IF k = key THEN val ELSE obj[k]]

\* {}
EmptyObj == [k \in {} |-> 0]

\* array[index], undefined (FALSE) outside of the array; indexes are 0-based
HasIndex(array, index) == index >= 0 /\ index < Len(array)

At(array, index) == array[index + 1]

-----------------------------------------------------------------------------
(* Quiz files: what loadQuizFile returns for the files of the quizzes folder *)

Question(id, nOptions, correct) ==
  [question |-> id, options |-> nOptions, correct |-> correct]

\* a file of two questions, the second without an answer line (correct: -1),
\* a file of three questions, and a file without questions
QuizFiles ==
  [ two   |-> << Question(1, 2, 0), Question(2, 2, -1) >>,
    three |-> << Question(1, 2, 0), Question(2, 2, 1), Question(3, 2, 0) >>,
    empty |-> << >> ]

FileNames == {"two", "three", "empty", "missing"}

\* loadQuizFile throws when the file cannot be read
FileReadable(fileName) == fileName \in DOMAIN QuizFiles

\* questionCount as the caller gives it: null, a string, or a number
QCNull == [type |-> "null", n |-> 0]

QCString == [type |-> "string", n |-> 0]

QCNumber(n) == [type |-> "number", n |-> n]

-----------------------------------------------------------------------------
(* quizParser.shuffleArray: Fisher-Yates on a copy; every outcome of the     *)
(* random choices j = floor(random() * (i + 1)), j in 0 .. i                 *)

\* mutation: the destructuring assignment writes one side only
Swap_OneSide(s, a, b) == [s EXCEPT ![a] = s[b]]

Swap(s, a, b) == [s EXCEPT ![a] = s[b], ![b] = s[a]]

RECURSIVE ShuffleFrom(_, _)
\* i is the 1-based position of the loop variable (code: i = length-1 .. 1)
ShuffleFrom(shuffled, i) ==
  IF i <= 1 THEN {shuffled}
  ELSE UNION { ShuffleFrom(Swap(shuffled, i, j), i - 1) : j \in 1..i }

shuffleArray(array) == ShuffleFrom(array, Len(array))

\* the argument and the returned array after a call: the loop writes to the
\* copy of line 101 only
shuffleArrayRuns(array) ==
  { [array |-> array, shuffled |-> shuffled] : shuffled \in shuffleArray(array) }

-----------------------------------------------------------------------------
(* GameService *)

EmptyAnalytics ==
  [ totalAnswers |-> 0,
    correctAnswers |-> 0,
    averageResponseTime |-> [sum |-> 0, n |-> 1],   \* the quotient sum / n
    responseTimeDistribution |-> << >>,
    questionStats |-> EmptyObj ]

\* this.customTimeLimit || config.game.timeLimit
EffectiveTimeLimit == IF customTimeLimit # Null THEN customTimeLimit ELSE TIME_LIMIT_DEFAULT

\* results are records tagged by kind, so that any two can be compared
NullResult == [kind |-> "null"]

ThrowResult == [kind |-> "throw"]

\* ---- loadQuiz ---------------------------------------------------------

\* mutation: the slice keeps the last questions instead of the first
Truncate_KeepsTail(loadedData, questionCount) ==
  IF /\ questionCount.type # "string"
     /\ questionCount.type = "number"
     /\ questionCount.n > 0
     /\ questionCount.n < Len(loadedData)
  THEN SubSeq(loadedData, Len(loadedData) - questionCount.n + 1, Len(loadedData))
  ELSE loadedData

\* the slice of lines 51-58
Truncate(loadedData, questionCount) ==
  IF /\ questionCount.type # "string"
     /\ questionCount.type = "number"
     /\ questionCount.n > 0
     /\ questionCount.n < Len(loadedData)
  THEN SubSeq(loadedData, 1, questionCount.n)
  ELSE loadedData

\* the possible values of loadedData after lines 41-58
LoadedData(fileName, shuffle, questionCount) ==
  { Truncate(d, questionCount) :
      d \in IF shuffle THEN shuffleArray(QuizFiles[fileName]) ELSE {QuizFiles[fileName]} }

loadQuizResult(fileName, shuffle, loadedData, timeLimit) ==
  IF FileReadable(fileName)
  THEN [kind |-> "load", success |-> TRUE, shuffle |-> shuffle,
        questionCount |-> Len(loadedData),
        timeLimit |-> IF timeLimit # Null THEN timeLimit ELSE TIME_LIMIT_DEFAULT]
  ELSE [kind |-> "load", success |-> FALSE, shuffle |-> shuffle,
        questionCount |-> 0, timeLimit |-> 0]

\* mutation: the scores of the game before are kept
loadQuiz_KeepsScores(fileName, loadedData, timeLimit) ==
  IF FileReadable(fileName)
  THEN /\ quizData' = loadedData
       /\ currentQuestionIndex' = -1
       /\ customTimeLimit' = timeLimit
       /\ answerAnalytics' = EmptyAnalytics
       /\ UNCHANGED <<votes, scores, answeredUsers, isQuestionActive, questionStartTime,
                      isPaused, pauseStartTime, totalPausedTime>>
  ELSE UNCHANGED svars

\* mutation: the cursor of the game before is kept
loadQuiz_KeepsCursor(fileName, loadedData, timeLimit) ==
  IF FileReadable(fileName)
  THEN /\ quizData' = loadedData
       /\ scores' = EmptyObj
       /\ customTimeLimit' = timeLimit
       /\ answerAnalytics' = EmptyAnalytics
       /\ UNCHANGED <<currentQuestionIndex, votes, answeredUsers, isQuestionActive,
                      questionStartTime, isPaused, pauseStartTime, totalPausedTime>>
  ELSE UNCHANGED svars

\* mutation: the cursor and the scores are reset before the file is read
loadQuiz_ResetsFirst(fileName, loadedData, timeLimit) ==
  /\ currentQuestionIndex' = -1
  /\ scores' = EmptyObj
  /\ IF FileReadable(fileName)
     THEN /\ quizData' = loadedData
          /\ customTimeLimit' = timeLimit
          /\ answerAnalytics' = EmptyAnalytics
     ELSE UNCHANGED <<quizData, customTimeLimit, answerAnalytics>>
  /\ UNCHANGED <<votes, answeredUsers, isQuestionActive, questionStartTime,
                 isPaused, pauseStartTime, totalPausedTime>>

\* loadedData is one of LoadedData(fileName, shuffle, questionCount) when the
\* file is readable; it is not used otherwise
loadQuiz(fileName, loadedData, timeLimit) ==
  IF FileReadable(fileName)
  THEN /\ quizData' = loadedData
       /\ currentQuestionIndex' = -1
       /\ scores' = EmptyObj
       /\ customTimeLimit' = timeLimit
       /\ answerAnalytics' = EmptyAnalytics
       /\ UNCHANGED <<votes, answeredUsers, isQuestionActive, questionStartTime,
                      isPaused, pauseStartTime, totalPausedTime>>
  ELSE UNCHANGED svars

\* ---- getNextQuestion --------------------------------------------------

\* mutation: the guard forgets the active flag
getNextQuestionStarts_NoActiveCheck ==
  currentQuestionIndex < Len(quizData) - 1

getNextQuestionStarts ==
  ~isQuestionActive /\ currentQuestionIndex < Len(quizData) - 1

\* mutation: the questions are numbered from 0
getNextQuestionResult_ZeroBased ==
  IF getNextQuestionStarts
  THEN [kind |-> "question",
        question |-> At(quizData, currentQuestionIndex + 1).question,
        options |-> At(quizData, currentQuestionIndex + 1).options,
        timeLeft |-> EffectiveTimeLimit,
        questionNumber |-> currentQuestionIndex + 1,
        totalQuestions |-> Len(quizData)]
  ELSE NullResult

getNextQuestionResult ==
  IF getNextQuestionStarts
  THEN [kind |-> "question",
        question |-> At(quizData, currentQuestionIndex + 1).question,
        options |-> At(quizData, currentQuestionIndex + 1).options,
        timeLeft |-> EffectiveTimeLimit,
        questionNumber |-> currentQuestionIndex + 2,
        totalQuestions |-> Len(quizData)]
  ELSE NullResult

\* mutation: the votes and the answered set of the question before are kept
getNextQuestion_KeepsVotes ==
  IF getNextQuestionStarts
  THEN /\ currentQuestionIndex' = currentQuestionIndex + 1
       /\ isQuestionActive' = TRUE
       /\ questionStartTime' = now
       /\ UNCHANGED <<quizData, votes, scores, answeredUsers, customTimeLimit, isPaused,
                      pauseStartTime, totalPausedTime, answerAnalytics>>
  ELSE UNCHANGED svars

getNextQuestion ==
  IF getNextQuestionStarts
  THEN /\ currentQuestionIndex' = currentQuestionIndex + 1
       /\ isQuestionActive' = TRUE
       /\ votes' = EmptyObj
       /\ answeredUsers' = {}
       /\ questionStartTime' = now
       /\ UNCHANGED <<quizData, scores, customTimeLimit, isPaused, pauseStartTime,
                      totalPausedTime, answerAnalytics>>
  ELSE UNCHANGED svars

\* ---- endCurrentQuestion -----------------------------------------------

\* this.quizData[this.currentQuestionIndex] is undefined: reading .correct throws
endCurrentQuestionThrows ==
  isQuestionActive /\ ~HasIndex(quizData, currentQuestionIndex)

\* mutation: the result is built without the test of isQuestionActive
endCurrentQuestionResult_NoActiveCheck ==
  IF ~HasIndex(quizData, currentQuestionIndex) THEN ThrowResult
  ELSE [kind |-> "end",
        correctAnswer |-> At(quizData, currentQuestionIndex).correct,
        currentOptions |-> At(quizData, currentQuestionIndex).options,
        votes |-> votes]

endCurrentQuestionResult ==
  IF ~isQuestionActive THEN NullResult
  ELSE IF endCurrentQuestionThrows THEN ThrowResult
  ELSE [kind |-> "end",
        correctAnswer |-> At(quizData, currentQuestionIndex).correct,
        currentOptions |-> At(quizData, currentQuestionIndex).options,
        votes |-> votes]

\* the flag is cleared (line 127) before the question is read (line 128)
endCurrentQuestion ==
  /\ isQuestionActive' = FALSE
  /\ UNCHANGED <<quizData, currentQuestionIndex, votes, scores, answeredUsers,
                 questionStartTime, customTimeLimit, isPaused, pauseStartTime,
                 totalPausedTime, answerAnalytics>>

\* ---- resetGame --------------------------------------------------------

\* mutation: the questions of the game before are kept
resetGame_KeepsQuiz ==
  /\ currentQuestionIndex' = -1
  /\ scores' = EmptyObj
  /\ isQuestionActive' = FALSE
  /\ answerAnalytics' = EmptyAnalytics
  /\ UNCHANGED <<quizData, votes, answeredUsers, questionStartTime, customTimeLimit,
                 isPaused, pauseStartTime, totalPausedTime>>

resetGame ==
  /\ currentQuestionIndex' = -1
  /\ scores' = EmptyObj
  /\ quizData' = << >>
  /\ isQuestionActive' = FALSE
  /\ answerAnalytics' = EmptyAnalytics
  /\ UNCHANGED <<votes, answeredUsers, questionStartTime, customTimeLimit,
                 isPaused, pauseStartTime, totalPausedTime>>

\* ---- processAnswer ----------------------------------------------------

\* mutation: the score is not clamped
calcScore_NoClamp(timeElapsed, timeLimit) ==
  MathRound(MAX_SCORE * 1000 * timeLimit - timeElapsed * (MAX_SCORE - MIN_SCORE),
            1000 * timeLimit)

\* mutation: the decay reaches MIN_SCORE at twice the time limit
calcScore_SlowDecay(timeElapsed, timeLimit) ==
  LET rounded == MathRound(MAX_SCORE * 2000 * timeLimit - timeElapsed * (MAX_SCORE - MIN_SCORE),
                           2000 * timeLimit)
  IN  Max(MIN_SCORE, Min(MAX_SCORE, rounded))

\* mutation: the decay has the wrong sign
calcScore_Growing(timeElapsed, timeLimit) ==
  LET rounded == MathRound(MIN_SCORE * 1000 * timeLimit + timeElapsed * (MAX_SCORE - MIN_SCORE),
                           1000 * timeLimit)
  IN  IF rounded < MIN_SCORE THEN MIN_SCORE
      ELSE IF rounded > MAX_SCORE THEN MAX_SCORE ELSE rounded

\* lines 255-256, for timeElapsed in milliseconds and timeLimit in seconds:
\* Math.round(MAX_SCORE - (timeElapsed * (MAX_SCORE - MIN_SCORE)) / TIME_LIMIT),
\* then clamped to MIN_SCORE .. MAX_SCORE
calcScore(timeElapsed, timeLimit) ==
  LET rounded == MathRound(MAX_SCORE * 1000 * timeLimit - timeElapsed * (MAX_SCORE - MIN_SCORE),
                           1000 * timeLimit)
  IN  Max(MIN_SCORE, Min(MAX_SCORE, rounded))

\* mutation: the test of answeredUsers is missing
processAnswerReason_NoDuplicateCheck(nickname) ==
  IF ~HasIndex(quizData, currentQuestionIndex) THEN "no_question"
  ELSE IF ~isQuestionActive THEN "no_question"
  ELSE ""

\* mutation: the test of the active flag is missing
processAnswerReason_NoActiveCheck(nickname) ==
  IF ~HasIndex(quizData, currentQuestionIndex) THEN "no_question"
  ELSE IF nickname \in answeredUsers THEN "already_answered"
  ELSE ""

\* the checks of lines 194-209: "" when the answer is accepted
processAnswerReason(nickname) ==
  IF ~HasIndex(quizData, currentQuestionIndex) THEN "no_question"
  ELSE IF ~isQuestionActive THEN "no_question"
  ELSE IF nickname \in answeredUsers THEN "already_answered"
  ELSE ""

processAnswerIsCorrect(answerIndex) ==
  answerIndex = At(quizData, currentQuestionIndex).correct

\* scoreEarned of lines 249-258; the empty nickname is falsy
processAnswerScore(nickname, answerIndex, timeElapsed) ==
  IF processAnswerIsCorrect(answerIndex) /\ nickname # ""
  THEN calcScore(timeElapsed, EffectiveTimeLimit)
  ELSE 0

Rejected(reason) ==
  [kind |-> "answer", success |-> FALSE, reason |-> reason, isCorrect |-> FALSE,
   scoreEarned |-> 0, totalAnswers |-> 0, correctAnswers |-> 0]

processAnswerResult(nickname, answerIndex, timeElapsed) ==
  IF processAnswerReason(nickname) # ""
  THEN Rejected(processAnswerReason(nickname))
  ELSE LET isCorrect == processAnswerIsCorrect(answerIndex)
       IN [kind |-> "answer", success |-> TRUE, reason |-> "",
           isCorrect |-> isCorrect,
           scoreEarned |-> IF isCorrect
                           THEN processAnswerScore(nickname, answerIndex, timeElapsed)
                           ELSE 0,
           totalAnswers |-> answerAnalytics.totalAnswers + 1,
           correctAnswers |-> answerAnalytics.correctAnswers + (IF isCorrect THEN 1 ELSE 0)]

\* lines 221-241: the statistics record of the current question after the answer
NextQuestionStat(answerIndex, timeElapsed) ==
  LET i    == currentQuestionIndex
      old  == IF i \in DOMAIN answerAnalytics.questionStats
              THEN answerAnalytics.questionStats[i]
              ELSE [question |-> At(quizData, i).question, correctAnswers |-> 0,
                    totalAnswers |-> 0, averageResponseTime |-> [sum |-> 0, n |-> 1],
                    responseTimes |-> << >>]
      times == Append(old.responseTimes, timeElapsed)
  IN  [question |-> old.question,
       correctAnswers |-> old.correctAnswers
                            + (IF processAnswerIsCorrect(answerIndex) THEN 1 ELSE 0),
       totalAnswers |-> old.totalAnswers + 1,
       averageResponseTime |-> [sum |-> SumSeq(times), n |-> Len(times)],
       responseTimes |-> times]

\* mutation: every answer is counted as a correct one
NextAnalytics_AllCorrect(answerIndex, timeElapsed) ==
  LET dist == Append(answerAnalytics.responseTimeDistribution, timeElapsed)
  IN  [totalAnswers |-> answerAnalytics.totalAnswers + 1,
       correctAnswers |-> answerAnalytics.correctAnswers + 1,
       averageResponseTime |-> [sum |-> SumSeq(dist), n |-> Len(dist)],
       responseTimeDistribution |-> dist,
       questionStats |-> Put(answerAnalytics.questionStats, currentQuestionIndex,
                             NextQuestionStat(answerIndex, timeElapsed))]

\* lines 212-246
NextAnalytics(answerIndex, timeElapsed) ==
  LET dist == Append(answerAnalytics.responseTimeDistribution, timeElapsed)
  IN  [totalAnswers |-> answerAnalytics.totalAnswers + 1,
       correctAnswers |-> answerAnalytics.correctAnswers
                            + (IF processAnswerIsCorrect(answerIndex) THEN 1 ELSE 0),
       averageResponseTime |-> [sum |-> SumSeq(dist), n |-> Len(dist)],
       responseTimeDistribution |-> dist,
       questionStats |-> Put(answerAnalytics.questionStats, currentQuestionIndex,
                             NextQuestionStat(answerIndex, timeElapsed))]

\* mutation: the score earned replaces the score the participant had
processAnswerRecords_Overwrites(nickname, answerIndex, timeElapsed) ==
  /\ answerAnalytics' = NextAnalytics(answerIndex, timeElapsed)
  /\ scores' = IF processAnswerIsCorrect(answerIndex) /\ nickname # ""
               THEN Put(scores, nickname,
                        processAnswerScore(nickname, answerIndex, timeElapsed))
               ELSE scores
  /\ answeredUsers' = answeredUsers \cup {nickname}
  /\ votes' = Put(votes, answerIndex, GetOr0(votes, answerIndex) + 1)

\* lines 212-262: what an accepted answer writes
processAnswerRecords(nickname, answerIndex, timeElapsed) ==
  /\ answerAnalytics' = NextAnalytics(answerIndex, timeElapsed)
  /\ scores' = IF processAnswerIsCorrect(answerIndex) /\ nickname # ""
               THEN Put(scores, nickname,
                        GetOr0(scores, nickname)
                          + processAnswerScore(nickname, answerIndex, timeElapsed))
               ELSE scores
  /\ answeredUsers' = answeredUsers \cup {nickname}
  /\ votes' = Put(votes, answerIndex, GetOr0(votes, answerIndex) + 1)

processAnswer(nickname, answerIndex, timeElapsed) ==
  IF processAnswerReason(nickname) # ""
  THEN UNCHANGED svars
  ELSE /\ processAnswerRecords(nickname, answerIndex, timeElapsed)
       /\ UNCHANGED <<quizData, currentQuestionIndex, isQuestionActive, questionStartTime,
                      customTimeLimit, isPaused, pauseStartTime, totalPausedTime>>

\* ---- togglePause / getRemainingTime -----------------------------------

togglePauseResult == isQuestionActive /\ ~isPaused

\* mutation: the resume forgets to add the pause to totalPausedTime
togglePause_ForgetsPause ==
  IF ~isQuestionActive THEN UNCHANGED svars
  ELSE /\ isPaused' = ~isPaused
       /\ pauseStartTime' = IF isPaused THEN pauseStartTime ELSE now
       /\ UNCHANGED <<quizData, currentQuestionIndex, votes, scores, answeredUsers,
                      isQuestionActive, questionStartTime, customTimeLimit,
                      totalPausedTime, answerAnalytics>>

togglePause ==
  IF ~isQuestionActive THEN UNCHANGED svars
  ELSE IF isPaused
  THEN /\ totalPausedTime' = totalPausedTime + (now - pauseStartTime)
       /\ isPaused' = FALSE
       /\ UNCHANGED <<quizData, currentQuestionIndex, votes, scores, answeredUsers,
                      isQuestionActive, questionStartTime, customTimeLimit,
                      pauseStartTime, answerAnalytics>>
  ELSE /\ isPaused' = TRUE
       /\ pauseStartTime' = now
       /\ UNCHANGED <<quizData, currentQuestionIndex, votes, scores, answeredUsers,
                      isQuestionActive, questionStartTime, customTimeLimit,
                      totalPausedTime, answerAnalytics>>

\* getRemainingTime evaluated with the given session fields at time t
RemainingTime(active, limit, start, paused, t) ==
  IF ~active THEN 0
  ELSE Max(0, MathCeil(1000 * limit - (t - start - paused), 1000))

getRemainingTime ==
  RemainingTime(isQuestionActive, EffectiveTimeLimit, questionStartTime,
                totalPausedTime, now)

-----------------------------------------------------------------------------
(* The state after construction: new GameService(), setupSocketRoutes(io)    *)

NoSocket == [connected |-> FALSE, isHost |-> FALSE, nickname |-> "", answered |-> FALSE]

NoTimer ==
  [exists |-> FALSE, running |-> FALSE, isEnded |-> FALSE, timeLeft |-> 0, due |-> 0,
   duration |-> 0, ticks |-> 0, ends |-> 0, cleared |-> FALSE, stale |-> FALSE]

\* the connections that the model follows
SocketIds == {"s1", "s2", "s3"}

\* number of timer instances that the model follows at a time
MaxTimers == 2

TimerIds == 1..MaxTimers

Init ==
  /\ quizData = << >>
  /\ currentQuestionIndex = -1
  /\ votes = EmptyObj
  /\ scores = EmptyObj
  /\ answeredUsers = {}
  /\ isQuestionActive = FALSE
  /\ questionStartTime = 0
  /\ customTimeLimit = Null
  /\ isPaused = FALSE
  /\ pauseStartTime = 0
  /\ totalPausedTime = 0
  /\ answerAnalytics = EmptyAnalytics
  /\ now = 0
  /\ sockets = [s \in SocketIds |-> NoSocket]
  /\ activeSockets = {}
  /\ currentTimer = 0
  /\ timers = [t \in TimerIds |-> NoTimer]
  /\ pendingLaunch = << >>
  /\ last = [op |-> "init"]

-----------------------------------------------------------------------------
(* The session driven directly through its methods                           *)

Nicknames == {"", "ann"}

AnswerIndexes == {0, 1}

\* timeElapsed handed to processAnswer, in ms: 20 s, beyond the default limit of
\* 15 s and within a custom limit of 30 s
ElapsedTimes == {20000}

SessionTimeLimits == {Null, 30}

\* (fileName, shuffle, questionCount) as handed to loadQuiz
LoadInputs ==
  { <<"two", FALSE, QCNull>>, <<"two", FALSE, QCNumber(1)>>,
    <<"empty", FALSE, QCString>>, <<"missing", FALSE, QCNull>> }

CallLoadQuiz ==
  \E in \in LoadInputs, timeLimit \in SessionTimeLimits :
    \E loadedData \in IF FileReadable(in[1])
                      THEN LoadedData(in[1], in[2], in[3])
                      ELSE {<< >>} :
      /\ loadQuiz(in[1], loadedData, timeLimit)
      /\ last' = [op |-> "loadQuiz",
                  result |-> loadQuizResult(in[1], in[2], loadedData, timeLimit)]
      /\ UNCHANGED <<now, tvars>>

CallGetNextQuestion ==
  /\ getNextQuestion
  /\ last' = [op |-> "getNextQuestion", result |-> getNextQuestionResult]
  /\ UNCHANGED <<now, tvars>>

CallEndCurrentQuestion ==
  /\ endCurrentQuestion
  /\ last' = [op |-> "endCurrentQuestion", result |-> endCurrentQuestionResult]
  /\ UNCHANGED <<now, tvars>>

CallProcessAnswer ==
  \E nickname \in Nicknames, answerIndex \in AnswerIndexes, timeElapsed \in ElapsedTimes :
    /\ processAnswer(nickname, answerIndex, timeElapsed)
    /\ last' = [op |-> "processAnswer", nickname |-> nickname,
                answerIndex |-> answerIndex, timeElapsed |-> timeElapsed,
                result |-> processAnswerResult(nickname, answerIndex, timeElapsed)]
    /\ UNCHANGED <<now, tvars>>

CallTogglePause ==
  /\ togglePause
  /\ last' = [op |-> "togglePause", result |-> togglePauseResult]
  /\ UNCHANGED <<now, tvars>>

CallResetGame ==
  /\ resetGame
  /\ last' = [op |-> "resetGame"]
  /\ UNCHANGED <<now, tvars>>

CallGetRemainingTime ==
  /\ last' = [op |-> "getRemainingTime", result |-> getRemainingTime]
  /\ UNCHANGED <<svars, now, tvars>>

\* a timer object that is stopped and that currentTimer does not reference is
\* unreachable: its slot is given back
Collect ==
  [t \in TimerIds |->
     IF timers[t].exists /\ ~timers[t].running /\ t # currentTimer
     THEN NoTimer ELSE timers[t]]

\* time passes; a timer or timeout that is due runs before the clock moves on
ClockStep(maxSteps) ==
  /\ now < maxSteps * Step
  /\ \A t \in TimerIds : timers[t].running => timers[t].due > now
  /\ \A i \in DOMAIN pendingLaunch : pendingLaunch[i] > now
  /\ now' = now + Step
  /\ timers' = Collect
  /\ last' = [op |-> "clock"]
  /\ UNCHANGED <<svars, sockets, activeSockets, currentTimer, pendingLaunch>>

NextSession ==
  \/ CallLoadQuiz
  \/ CallGetNextQuestion
  \/ CallEndCurrentQuestion
  \/ CallProcessAnswer
  \/ CallTogglePause
  \/ CallResetGame
  \/ CallGetRemainingTime
  \/ ClockStep(SessionSteps)

SpecSession == Init /\ [][NextSession]_vars

-----------------------------------------------------------------------------
(* Scoring: one open question, answered at every elapsed time of a grid      *)

\* the grid of elapsed times: 0, 500, ... , MaxScoreElapsed * 500 ms
MaxScoreElapsed == 64

ScoreElapsed == { k * Step : k \in 0..MaxScoreElapsed }

ScoreTimeLimits == {Null, 2, 30}

\* the states after loadQuiz("two", false, null, timeLimit) and getNextQuestion()
InitScore ==
  /\ quizData = QuizFiles.two
  /\ currentQuestionIndex = 0
  /\ votes = EmptyObj
  /\ scores = EmptyObj
  /\ answeredUsers = {}
  /\ isQuestionActive = TRUE
  /\ questionStartTime = 0
  /\ customTimeLimit \in ScoreTimeLimits
  /\ isPaused = FALSE
  /\ pauseStartTime = 0
  /\ totalPausedTime = 0
  /\ answerAnalytics = EmptyAnalytics
  /\ now = 0
  /\ sockets = [s \in SocketIds |-> NoSocket]
  /\ activeSockets = {}
  /\ currentTimer = 0
  /\ timers = [t \in TimerIds |-> NoTimer]
  /\ pendingLaunch = << >>
  /\ last = [op |-> "getNextQuestion",
             result |-> [kind |-> "question", question |-> 1, options |-> 2,
                         timeLeft |-> EffectiveTimeLimit, questionNumber |-> 1,
                         totalQuestions |-> 2]]

\* each participant submits one answer to the question
ScoreAnswer ==
  \E nickname \in Nicknames \ answeredUsers, answerIndex \in AnswerIndexes,
     timeElapsed \in ScoreElapsed :
    /\ processAnswer(nickname, answerIndex, timeElapsed)
    /\ last' = [op |-> "processAnswer", nickname |-> nickname,
                answerIndex |-> answerIndex, timeElapsed |-> timeElapsed,
                result |-> processAnswerResult(nickname, answerIndex, timeElapsed)]
    /\ UNCHANGED <<now, tvars>>

SpecScore == InitScore /\ [][ScoreAnswer]_vars

-----------------------------------------------------------------------------
(* Properties of the session                                                 *)

\* the last call was processAnswer and the answer was accepted
AcceptedAnswer == last.op = "processAnswer" /\ last.result.success

\* a question is open for answers: the flag is set and the cursor is on a question
AcceptingAnswers == isQuestionActive /\ HasIndex(quizData, currentQuestionIndex)

RECURSIVE SumVotes(_)
SumVotes(v) ==
  IF DOMAIN v = {} THEN 0
  ELSE LET k == CHOOSE x \in DOMAIN v : TRUE
       IN  v[k] + SumVotes([x \in DOMAIN v \ {k} |-> v[x]])

\* C1 (single active): a getNextQuestion call made while a question is active
\* returns null and leaves the cursor, the votes, the answered set and the
\* active flag as they were, so the cursor is never advanced twice.
C1_SingleActive ==
  [][ (last'.op = "getNextQuestion" /\ isQuestionActive)
        => /\ last'.result.kind = "null"
           /\ currentQuestionIndex' = currentQuestionIndex
           /\ votes' = votes
           /\ answeredUsers' = answeredUsers
           /\ isQuestionActive' ]_vars

\* getNextQuestion was called while a question with recorded answers was active
C1_Witness ==
  /\ last.op = "getNextQuestion"
  /\ last.result.kind = "null"
  /\ isQuestionActive
  /\ currentQuestionIndex = 0
  /\ answeredUsers # {}

\* C2 (no double count): while a question is open for answers, a processAnswer
\* call of a participant who already has an accepted answer for it returns
\* {success: false, reason: "already_answered"} and changes neither votes,
\* scores, analytics nor the answered set; the votes total therefore equals the
\* number of participants that answered.
C2_NoDoubleCount ==
  [][ /\ (last'.op = "processAnswer" /\ AcceptingAnswers
            /\ last'.nickname \in answeredUsers)
        => /\ ~last'.result.success
           /\ last'.result.reason = "already_answered"
           /\ UNCHANGED <<votes, scores, answerAnalytics, answeredUsers>>
      /\ SumVotes(votes') = Cardinality(answeredUsers') ]_vars

\* a participant's second answer was rejected while another participant's
\* answer is counted too
C2_Witness ==
  /\ last.op = "processAnswer"
  /\ last.result.reason = "already_answered"
  /\ AcceptingAnswers
  /\ Cardinality(answeredUsers) = 2
  /\ SumVotes(votes) = 2

\* C3 (no post-close mutation): a processAnswer call made while no question is
\* active (before the first question, or after endCurrentQuestion) returns
\* {success: false, reason: "no_question"} and leaves scores, votes, the
\* answered set and the analytics unchanged.
C3_NoPostCloseMutation ==
  [][ (last'.op = "processAnswer" /\ ~isQuestionActive)
        => /\ ~last'.result.success
           /\ last'.result.reason = "no_question"
           /\ UNCHANGED <<votes, scores, answerAnalytics, answeredUsers>> ]_vars

\* an answer arrived after the question with recorded answers was ended
C3_Witness ==
  /\ last.op = "processAnswer"
  /\ last.result.reason = "no_question"
  /\ ~isQuestionActive
  /\ HasIndex(quizData, currentQuestionIndex)
  /\ answeredUsers # {}
  /\ last.nickname \notin answeredUsers

\* C10 (time-expired rejection), as claimed: a first answer to an open question
\* with an elapsed time beyond the effective time limit returns
\* {success: false, reason: "time_expired"} and is not recorded.
C10_TimeExpired ==
  [][ (last'.op = "processAnswer" /\ AcceptingAnswers
         /\ last'.nickname \notin answeredUsers
         /\ last'.timeElapsed > 1000 * EffectiveTimeLimit)
        => /\ ~last'.result.success
           /\ last'.result.reason = "time_expired"
           /\ UNCHANGED <<votes, scores, answerAnalytics, answeredUsers>> ]_vars

\* C8 (score bound), as claimed: every accepted correct answer, whoever the
\* participant, earns between MIN_SCORE and MAX_SCORE.
C8_ScoreBound_EveryParticipant ==
  (AcceptedAnswer /\ last.result.isCorrect)
    => (MIN_SCORE <= last.result.scoreEarned /\ last.result.scoreEarned <= MAX_SCORE)

\* C8 (score bound), amended: an accepted correct answer of a participant with a
\* non-empty identifier earns between MIN_SCORE and MAX_SCORE, for every elapsed
\* time and time limit; with the empty identifier it earns 0.
C8_ScoreBound ==
  (AcceptedAnswer /\ last.result.isCorrect)
    => IF last.nickname # ""
       THEN MIN_SCORE <= last.result.scoreEarned /\ last.result.scoreEarned <= MAX_SCORE
       ELSE last.result.scoreEarned = 0

\* a correct answer that came after the time limit was accepted and scored
C8_Witness ==
  /\ AcceptedAnswer
  /\ last.result.isCorrect
  /\ last.nickname # ""
  /\ last.timeElapsed > 1000 * EffectiveTimeLimit
  /\ last.result.scoreEarned = MIN_SCORE

\* C9 (score monotonicity): for the time limit in force, the score earned by an
\* accepted correct answer is a non-increasing function of the elapsed time: the
\* same answer earns at least as much at every earlier time of the grid and at
\* most as much at every later one.
C9_ScoreMonotone ==
  (AcceptedAnswer /\ last.result.isCorrect)
    => \A t \in ScoreElapsed :
         /\ t <= last.timeElapsed
              => processAnswerScore(last.nickname, last.answerIndex, t)
                   >= last.result.scoreEarned
         /\ t >= last.timeElapsed
              => processAnswerScore(last.nickname, last.answerIndex, t)
                   <= last.result.scoreEarned

\* a correct answer scored strictly inside the decay, between the two bounds
C9_Witness ==
  /\ AcceptedAnswer
  /\ last.result.isCorrect
  /\ last.nickname # ""
  /\ last.result.scoreEarned > MIN_SCORE
  /\ last.result.scoreEarned < MAX_SCORE
  /\ \E t \in ScoreElapsed :
       processAnswerScore(last.nickname, last.answerIndex, t) < last.result.scoreEarned

\* C30 (decay endpoints), as claimed: every accepted correct answer given at
\* elapsed time 0 earns MAX_SCORE, and every one given at or after the time
\* limit earns MIN_SCORE, whoever the participant
C30_DecayEndpoints_EveryParticipant ==
  (AcceptedAnswer /\ last.result.isCorrect) =>
    /\ last.timeElapsed = 0 => last.result.scoreEarned = MAX_SCORE
    /\ last.timeElapsed >= 1000 * EffectiveTimeLimit => last.result.scoreEarned = MIN_SCORE

\* C30 (decay endpoints), amended: an accepted correct answer of a participant
\* with a non-empty identifier earns MAX_SCORE at elapsed time 0 and MIN_SCORE
\* at or after the time limit; with the empty identifier it earns 0
C30_DecayEndpoints ==
  (AcceptedAnswer /\ last.result.isCorrect) =>
    IF last.nickname # ""
    THEN /\ last.timeElapsed = 0 => last.result.scoreEarned = MAX_SCORE
         /\ last.timeElapsed >= 1000 * EffectiveTimeLimit =>
              last.result.scoreEarned = MIN_SCORE
    ELSE last.result.scoreEarned = 0

\* a correct answer given at the very moment the time limit is reached
C30_Witness ==
  /\ AcceptedAnswer /\ last.result.isCorrect /\ last.nickname # ""
  /\ last.timeElapsed = 1000 * EffectiveTimeLimit
  /\ last.result.scoreEarned = MIN_SCORE
  /\ calcScore(0, EffectiveTimeLimit) = MAX_SCORE

-----------------------------------------------------------------------------
(* The transport as the presenter drives it: the handlers of the presenter's  *)
(* connection, the question timer and the delayed launch of the next question *)

HOST_PASSWORD == "rty6tedde"

\* the connection of the presenter
HostSockets == {"s1"}

Passwords == {HOST_PASSWORD, "guess"}

TransportTimeLimits == {1}

\* (fileName, shuffle, questionCount) as sent with selectQuiz
SelectInputs == { <<"two", FALSE, QCNull>>, <<"missing", FALSE, QCNull>> }

\* number of delayed launches that wait at a time
MaxPending == 1

\* ---- startQuestionTimer ------------------------------------------------

\* mutation: clearTimer leaves the interval running
clearTimer_KeepsInterval(tm, t) ==
  [tm EXCEPT ![t].cleared = TRUE]

\* clearTimer of the instance in slot t: clearInterval(timerId)
clearTimer(tm, t) ==
  [tm EXCEPT ![t].running = FALSE, ![t].cleared = TRUE]

\* if (currentTimer) currentTimer.clearTimer()
ClearCurrent(tm) == IF currentTimer # 0 THEN clearTimer(tm, currentTimer) ELSE tm

HasFreeSlot(tm) == \E t \in TimerIds : ~tm[t].running

\* the new instance takes the first slot whose interval is not running; the
\* instance that currentTimer referenced is released by the assignment
FreeSlot(tm) ==
  CHOOSE t \in TimerIds :
    ~tm[t].running /\ \A u \in TimerIds : ~tm[u].running => t <= u

startQuestionTimer(tm, t, timeLimit) ==
  [tm EXCEPT ![t] = [exists |-> TRUE, running |-> TRUE, isEnded |-> FALSE,
                     timeLeft |-> timeLimit, due |-> now + TickMs,
                     duration |-> timeLimit, ticks |-> 0, ends |-> 0,
                     cleared |-> FALSE, stale |-> FALSE]]

\* endQuestion of the instance in slot t reaches gameService.endCurrentQuestion
endQuestionCalls(t) == ~timers[t].isEnded

endQuestionResult(t) ==
  IF endQuestionCalls(t) THEN endCurrentQuestionResult ELSE NullResult

endQuestionTimers(tm, t) ==
  IF endQuestionCalls(t)
  THEN [tm EXCEPT ![t].isEnded = TRUE, ![t].running = FALSE, ![t].ends = @ + 1]
  ELSE tm

endQuestionSession(t) ==
  IF endQuestionCalls(t) THEN endCurrentQuestion ELSE UNCHANGED svars

\* the timers and timeouts of the event loop run in the order of their due times
Earliest(due) ==
  /\ \A u \in TimerIds : timers[u].running => timers[u].due >= due
  /\ \A i \in DOMAIN pendingLaunch : pendingLaunch[i] >= due

\* the callback of setInterval of the instance in slot t
TimerFire(t) ==
  /\ timers[t].running
  /\ timers[t].due <= now
  /\ Earliest(timers[t].due)
  /\ LET timeLeft == timers[t].timeLeft - 1
         zero     == timeLeft <= 0
         calls    == zero /\ endQuestionCalls(t)
     IN  /\ timers' = [Collect EXCEPT ![t] =
                         [@ EXCEPT !.timeLeft = timeLeft,
                                   !.ticks = @ + 1,
                                   !.running = ~zero,
                                   !.due = IF zero THEN @ ELSE @ + TickMs,
                                   !.isEnded = @ \/ zero,
                                   !.ends = IF calls THEN @ + 1 ELSE @]]
         /\ IF calls THEN endCurrentQuestion ELSE UNCHANGED svars
         /\ last' = [op |-> "timerTick", timer |-> t, timeLeft |-> timeLeft,
                     stale |-> timers[t].stale, cleared |-> timers[t].cleared,
                     end |-> IF calls THEN endCurrentQuestionResult.kind ELSE "none"]
  /\ UNCHANGED <<now, sockets, activeSockets, currentTimer, pendingLaunch>>

\* ---- the handlers ------------------------------------------------------

Connection(s) ==
  /\ ~sockets[s].connected
  /\ sockets' = [sockets EXCEPT ![s] = [NoSocket EXCEPT !.connected = TRUE]]
  /\ timers' = Collect
  /\ last' = [op |-> "connection"]
  /\ UNCHANGED <<svars, now, activeSockets, currentTimer, pendingLaunch>>

\* mutation: the search for a connected presenter is left out
authenticateHostResult_NoHostCheck(s, password) ==
  IF password = HOST_PASSWORD THEN "success"
  ELSE "wrong_password"

authenticateHostResult(s, password) ==
  IF \E h \in activeSockets : sockets[h].isHost THEN "already_host"
  ELSE IF password = HOST_PASSWORD THEN "success"
  ELSE "wrong_password"

AuthenticateHost(s, password) ==
  /\ sockets[s].connected
  /\ IF authenticateHostResult(s, password) = "success"
     THEN /\ sockets' = [sockets EXCEPT ![s].isHost = TRUE]
          /\ activeSockets' = activeSockets \cup {s}
     ELSE UNCHANGED <<sockets, activeSockets>>
  /\ timers' = Collect
  /\ last' = [op |-> "authenticateHost", result |-> authenticateHostResult(s, password)]
  /\ UNCHANGED <<svars, now, currentTimer, pendingLaunch>>

Disconnect(s) ==
  /\ sockets[s].connected
  /\ IF sockets[s].isHost /\ currentTimer # 0
     THEN /\ timers' = clearTimer(Collect, currentTimer)
          /\ currentTimer' = 0
     ELSE /\ timers' = Collect
          /\ UNCHANGED currentTimer
  /\ activeSockets' = activeSockets \ {s}
  /\ sockets' = [sockets EXCEPT ![s] = NoSocket]
  /\ last' = [op |-> "disconnect",
              clearTimer |-> IF sockets[s].isHost THEN currentTimer ELSE 0]
  /\ UNCHANGED <<svars, now, pendingLaunch>>

SelectQuiz(s) ==
  /\ sockets[s].connected
  /\ sockets[s].isHost
  /\ \E in \in SelectInputs, timeLimit \in TransportTimeLimits :
       \E loadedData \in IF FileReadable(in[1])
                         THEN LoadedData(in[1], in[2], in[3])
                         ELSE {<< >>} :
         /\ loadQuiz(in[1], loadedData, timeLimit)
         /\ timers' = Collect
         /\ last' = [op |-> "selectQuiz",
                     result |-> loadQuizResult(in[1], in[2], loadedData, timeLimit)]
         /\ UNCHANGED <<now, sockets, activeSockets, currentTimer, pendingLaunch>>

resetAnswerFlags ==
  [s \in SocketIds |->
     IF s \in activeSockets /\ sockets[s].nickname # ""
     THEN [sockets[s] EXCEPT !.answered = FALSE]
     ELSE sockets[s]]

\* the closure launchNextQuestion, run at once or by the timeout of 500 ms
launchNextQuestion(op) ==
  /\ getNextQuestion
  /\ IF getNextQuestionStarts
     THEN LET cleared == ClearCurrent(Collect)
              old     == [t \in TimerIds |-> [cleared[t] EXCEPT !.stale = cleared[t].exists]]
          IN  /\ HasFreeSlot(old)
              /\ sockets' = resetAnswerFlags
              /\ timers' = startQuestionTimer(old, FreeSlot(old), EffectiveTimeLimit)
              /\ currentTimer' = FreeSlot(old)
              /\ last' = [op |-> op, result |-> "updateQuestion",
                          clearTimer |-> currentTimer, startTimer |-> FreeSlot(old)]
     ELSE /\ timers' = Collect
          /\ last' = [op |-> op, result |-> "quizFinished",
                      clearTimer |-> 0, startTimer |-> 0]
          /\ UNCHANGED <<sockets, currentTimer>>

NextQuestion(s) ==
  /\ sockets[s].connected
  /\ sockets[s].isHost
  /\ IF ~isQuestionActive
     THEN /\ launchNextQuestion("nextQuestion")
          /\ UNCHANGED <<now, activeSockets, pendingLaunch>>
     ELSE IF currentTimer # 0
     THEN /\ endQuestionSession(currentTimer)
          /\ timers' = endQuestionTimers(Collect, currentTimer)
          /\ IF endQuestionResult(currentTimer).kind = "throw"
             THEN UNCHANGED <<currentTimer, pendingLaunch>>
             ELSE /\ Len(pendingLaunch) < MaxPending
                  /\ currentTimer' = 0
                  /\ pendingLaunch' = Append(pendingLaunch, now + LaunchDelay)
          /\ last' = [op |-> "nextQuestion",
                      result |-> endQuestionResult(currentTimer).kind,
                      clearTimer |-> 0, startTimer |-> 0]
          /\ UNCHANGED <<now, sockets, activeSockets>>
     ELSE /\ Len(pendingLaunch) < MaxPending
          /\ pendingLaunch' = Append(pendingLaunch, now + LaunchDelay)
          /\ timers' = Collect
          /\ last' = [op |-> "nextQuestion", result |-> "none",
                      clearTimer |-> 0, startTimer |-> 0]
          /\ UNCHANGED <<svars, now, sockets, activeSockets, currentTimer>>

\* the timeout set by nextQuestion runs launchNextQuestion
LaunchFire ==
  /\ pendingLaunch # << >>
  /\ Head(pendingLaunch) <= now
  /\ Earliest(Head(pendingLaunch))
  /\ pendingLaunch' = Tail(pendingLaunch)
  /\ launchNextQuestion("launchNextQuestion")
  /\ UNCHANGED <<now, activeSockets>>

ResetGame(s) ==
  /\ sockets[s].connected
  /\ sockets[s].isHost
  /\ timers' = ClearCurrent(Collect)
  /\ currentTimer' = 0
  /\ resetGame
  /\ last' = [op |-> "resetGame", result |-> "gameReset", clearTimer |-> currentTimer]
  /\ UNCHANGED <<now, sockets, activeSockets, pendingLaunch>>

\* getRemainingTime() as read after togglePause() has resumed the session
RemainingAfterResume ==
  RemainingTime(isQuestionActive, EffectiveTimeLimit, questionStartTime,
                totalPausedTime + (now - pauseStartTime), now)

TogglePause(s) ==
  /\ sockets[s].connected
  /\ sockets[s].isHost
  /\ currentTimer # 0
  /\ isQuestionActive
  /\ togglePause
  /\ IF togglePauseResult
     THEN /\ timers' = clearTimer(Collect, currentTimer)
          /\ last' = [op |-> "togglePause", result |-> "gamePaused",
                      clearTimer |-> currentTimer, startTimer |-> 0, timeLeft |-> 0]
          /\ UNCHANGED currentTimer
     ELSE /\ HasFreeSlot(Collect)
          /\ timers' = startQuestionTimer(Collect, FreeSlot(Collect), RemainingAfterResume)
          /\ currentTimer' = FreeSlot(Collect)
          /\ last' = [op |-> "togglePause", result |-> "gameResumed",
                      clearTimer |-> 0, startTimer |-> FreeSlot(Collect),
                      timeLeft |-> RemainingAfterResume]
  /\ UNCHANGED <<now, sockets, activeSockets, pendingLaunch>>

NextTransport ==
  \/ \E s \in HostSockets : Connection(s)
  \/ \E s \in HostSockets, password \in Passwords : AuthenticateHost(s, password)
  \/ \E s \in HostSockets : Disconnect(s)
  \/ \E s \in HostSockets : SelectQuiz(s)
  \/ \E s \in HostSockets : NextQuestion(s)
  \/ LaunchFire
  \/ \E s \in HostSockets : ResetGame(s)
  \/ \E s \in HostSockets : TogglePause(s)
  \/ \E t \in TimerIds : TimerFire(t)
  \/ ClockStep(MaxSteps)

SpecTransport == Init /\ [][NextTransport]_vars

-----------------------------------------------------------------------------
(* Properties of the question timer                                          *)

\* the intervals that are running
LiveTimers == { t \in TimerIds : timers[t].running }

\* C4 (no timer outlives its question): the callback of a timer that was started
\* for an earlier question never reaches endCurrentQuestion while a later
\* question is the active one
C4_NoTimerOutlivesQuestion ==
  (last.op = "timerTick" /\ last.stale) => last.end \in {"none", "null"}

\* C5 (exactly one live timer): at most one interval runs at any moment, so a
\* timer is started only when every earlier one has been cancelled
C5_OneLiveTimer ==
  Cardinality(LiveTimers) <= 1

\* C6 (timer cancellation): an instance on which clearTimer() was called runs
\* no further callback, hence emits no tick and ends no question from it, and
\* calling clearTimer() on it again changes nothing
C6_TimerCancellation ==
  /\ last.op = "timerTick" => ~last.cleared
  /\ \A t \in TimerIds :
       timers[t].cleared => ~timers[t].running /\ clearTimer(timers, t) = timers

\* the tick of a cancelled timer has come due and was not delivered
C6_Witness ==
  /\ last.op = "clock"
  /\ \E t \in TimerIds :
       /\ timers[t].cleared
       /\ ~timers[t].isEnded
       /\ timers[t].due <= now
       /\ timers[t].ticks = 0

\* C7 (timer zero-transition): a timer that is not cancelled counts down by one
\* with each tick, reaches zero with tick number `duration` and not before, at
\* zero ends the question and stops itself; no instance reaches
\* endCurrentQuestion twice, the forced stop of the presenter included, and an
\* instance that has ended does not tick again
C7_TimerZeroTransition ==
  /\ \A t \in TimerIds :
       timers[t].ends <= 1 /\ (timers[t].isEnded => ~timers[t].running)
  /\ last.op = "timerTick" =>
       LET timer == timers[last.timer]
       IN  /\ timer.timeLeft = timer.duration - timer.ticks
           /\ timer.timeLeft >= 0
           /\ (timer.timeLeft = 0) = (timer.ticks = timer.duration)
           /\ timer.timeLeft = 0 => timer.ends = 1 /\ timer.isEnded /\ ~timer.running
           /\ timer.timeLeft > 0 => timer.ends = 0 /\ ~timer.isEnded /\ timer.running

-----------------------------------------------------------------------------
(* Properties of the question lifecycle                                      *)

\* the last call was getNextQuestion and it returned a question
StartedQuestion == last.op = "getNextQuestion" /\ last.result.kind = "question"

\* the answers that the analytics hold for the question under the cursor
AnswersOfCurrent ==
  IF currentQuestionIndex \in DOMAIN answerAnalytics.questionStats
  THEN answerAnalytics.questionStats[currentQuestionIndex].totalAnswers
  ELSE 0

\* C11 (votes and answered set never carry over): right after a getNextQuestion
\* that returned a question votes and answeredUsers are empty, and while the
\* cursor is on a question votes counts exactly the answers accepted for that
\* question, all of them given by the participants of answeredUsers
C11_NoCarryOver ==
  /\ StartedQuestion => votes = EmptyObj /\ answeredUsers = {}
  /\ HasIndex(quizData, currentQuestionIndex) =>
        /\ SumVotes(votes) = AnswersOfCurrent
        /\ SumVotes(votes) = Cardinality(answeredUsers)

\* the second question was started after answers to the first were counted
C11_Witness ==
  /\ StartedQuestion
  /\ currentQuestionIndex = 1
  /\ answerAnalytics.totalAnswers > 0
  /\ votes = EmptyObj

\* C12 (advance resets the pause accumulator): right after a getNextQuestion
\* that returned a question the session is not paused and totalPausedTime is 0
C12_AdvanceResetsPause ==
  StartedQuestion => ~isPaused /\ totalPausedTime = 0

\* C15 (endCurrentQuestion without an active question): the call returns null
\* and changes no field of the session; after any call no question is active,
\* so a second call in a row is such a no-op
C15_EndIsNoOpWhenInactive ==
  [][ (last'.op = "endCurrentQuestion") =>
        /\ ~isQuestionActive'
        /\ ~isQuestionActive => (last'.result.kind = "null" /\ UNCHANGED svars) ]_vars

\* a second call for a question that was ended
C15_Witness ==
  /\ last.op = "endCurrentQuestion" /\ last.result.kind = "null"
  /\ HasIndex(quizData, currentQuestionIndex)
  /\ SumVotes(votes) > 0

\* C16 (endCurrentQuestion on an active question): the call returns the correct
\* index and the options of the question under the cursor and the votes of the
\* answers accepted since it was started, and leaves no question active
C16_EndReturnsQuestion ==
  [][ (last'.op = "endCurrentQuestion" /\ isQuestionActive) =>
        /\ ~isQuestionActive'
        /\ last'.result.kind = "end"
        /\ last'.result.correctAnswer = At(quizData, currentQuestionIndex).correct
        /\ last'.result.currentOptions = At(quizData, currentQuestionIndex).options
        /\ last'.result.votes = votes
        /\ SumVotes(votes) = AnswersOfCurrent ]_vars

\* C17 (question sequence and exhaustion): a getNextQuestion() that starts a
\* question moves the cursor by one and returns the question under it, numbered
\* cursor + 1 of Len(quizData); with no question active it starts one exactly
\* when questions are left, and otherwise returns null and changes nothing
C17_QuestionSequence ==
  [][ (last'.op = "getNextQuestion") =>
        /\ IF last'.result.kind = "question"
           THEN /\ currentQuestionIndex' = currentQuestionIndex + 1
                /\ quizData' = quizData
                /\ HasIndex(quizData, currentQuestionIndex')
                /\ last'.result.question = At(quizData, currentQuestionIndex').question
                /\ last'.result.options = At(quizData, currentQuestionIndex').options
                /\ last'.result.questionNumber = currentQuestionIndex' + 1
                /\ last'.result.questionNumber \in 1 .. Len(quizData)
                /\ last'.result.totalQuestions = Len(quizData)
                /\ isQuestionActive'
           ELSE last'.result.kind = "null" /\ UNCHANGED svars
        /\ ~isQuestionActive =>
             (last'.result.kind = "question" <=> currentQuestionIndex < Len(quizData) - 1)
        /\ (~isQuestionActive /\ currentQuestionIndex >= Len(quizData) - 1) =>
             ~isQuestionActive' ]_vars

\* the second of two questions was started, ended, and the next call found none
C17_Witness ==
  /\ last.op = "getNextQuestion" /\ last.result.kind = "null"
  /\ ~isQuestionActive
  /\ Len(quizData) = 2 /\ currentQuestionIndex = 1

\* C22 (reset): right after resetGame() the scores are empty, the analytics
\* count no answers, no question is active and getNextQuestion() would return
\* null
C22_ResetClears ==
  last.op = "resetGame" =>
    /\ scores = EmptyObj
    /\ answerAnalytics.totalAnswers = 0
    /\ ~isQuestionActive
    /\ getNextQuestionResult = NullResult

\* a reset of a game in which an answer was given
C22_Witness ==
  /\ last.op = "resetGame"
  /\ "ann" \in answeredUsers /\ SumVotes(votes) > 0
  /\ scores = EmptyObj /\ quizData = << >>

\* the totals of the analytics agree with each other
AnalyticsConsistent(a) ==
  /\ Len(a.responseTimeDistribution) = a.totalAnswers
  /\ SumVotes([i \in DOMAIN a.questionStats |-> a.questionStats[i].totalAnswers])
       = a.totalAnswers
  /\ SumVotes([i \in DOMAIN a.questionStats |-> a.questionStats[i].correctAnswers])
       = a.correctAnswers
  /\ \A i \in DOMAIN a.questionStats :
       Len(a.questionStats[i].responseTimes) = a.questionStats[i].totalAnswers

\* the per-question counters of question i, 0 when it has no record yet
StatTotal(a, i) ==
  IF i \in DOMAIN a.questionStats THEN a.questionStats[i].totalAnswers ELSE 0

StatCorrect(a, i) ==
  IF i \in DOMAIN a.questionStats THEN a.questionStats[i].correctAnswers ELSE 0

\* C23 (analytics): an accepted answer adds one to totalAnswers and to the
\* counter of the question under the cursor, adds one to both correctAnswers
\* counters exactly when its index is the correct index of that question, and
\* appends its time to the response times; a rejected answer and every other
\* operation but loadQuiz and resetGame leave the analytics as they are, and
\* those two empty them; the totals always agree with each other
C23_AnalyticsAccuracy ==
  [][ /\ AnalyticsConsistent(answerAnalytics')
      /\ (last'.op = "processAnswer" /\ last'.result.success) =>
            LET hit == IF last'.answerIndex = At(quizData, currentQuestionIndex).correct
                       THEN 1 ELSE 0
                i   == currentQuestionIndex
            IN /\ answerAnalytics'.totalAnswers = answerAnalytics.totalAnswers + 1
               /\ answerAnalytics'.correctAnswers = answerAnalytics.correctAnswers + hit
               /\ answerAnalytics'.responseTimeDistribution =
                    Append(answerAnalytics.responseTimeDistribution, last'.timeElapsed)
               /\ StatTotal(answerAnalytics', i) = StatTotal(answerAnalytics, i) + 1
               /\ StatCorrect(answerAnalytics', i) = StatCorrect(answerAnalytics, i) + hit
               /\ \A k \in DOMAIN answerAnalytics.questionStats \ {i} :
                    /\ k \in DOMAIN answerAnalytics'.questionStats
                    /\ answerAnalytics'.questionStats[k] = answerAnalytics.questionStats[k]
               /\ last'.result.totalAnswers = answerAnalytics'.totalAnswers
               /\ last'.result.correctAnswers = answerAnalytics'.correctAnswers
      /\ (last'.op = "processAnswer" /\ ~last'.result.success) =>
            answerAnalytics' = answerAnalytics
      /\ (last'.op = "resetGame" \/ (last'.op = "loadQuiz" /\ last'.result.success)) =>
            answerAnalytics' = EmptyAnalytics
      /\ (last'.op \notin {"processAnswer", "resetGame", "loadQuiz"}) =>
            answerAnalytics' = answerAnalytics ]_vars

\* a wrong answer accepted after a correct one, on the second question
C23_Witness ==
  /\ AcceptedAnswer /\ ~last.result.isCorrect
  /\ currentQuestionIndex = 1
  /\ answerAnalytics.totalAnswers = 3 /\ answerAnalytics.correctAnswers = 1
  /\ StatTotal(answerAnalytics, 0) = 2 /\ StatTotal(answerAnalytics, 1) = 1

\* C25 (typed results): no operation of the session ends by throwing; each
\* returns its result
C25_TypedResults ==
  /\ last.op \in {"loadQuiz", "getNextQuestion", "endCurrentQuestion", "processAnswer"} =>
       last.result.kind # "throw"
  /\ last.op = "togglePause" => last.result \in BOOLEAN
  /\ last.op = "getRemainingTime" => last.result \in Nat

\* C28 (cursor discipline): the cursor stays between -1 and the index of the
\* last question; a step changes it only by +1, in a getNextQuestion() that
\* starts a question, or to -1, in a successful loadQuiz or a resetGame
C28_CursorDiscipline ==
  [][ /\ -1 <= currentQuestionIndex' /\ currentQuestionIndex' <= Len(quizData') - 1
      /\ currentQuestionIndex' # currentQuestionIndex =>
            \/ /\ last'.op = "getNextQuestion" /\ last'.result.kind = "question"
               /\ currentQuestionIndex' = currentQuestionIndex + 1
            \/ /\ last'.op = "resetGame" \/ (last'.op = "loadQuiz" /\ last'.result.success)
               /\ currentQuestionIndex' = -1
      /\ (last'.op = "getNextQuestion" /\ last'.result.kind = "question") =>
            currentQuestionIndex' = currentQuestionIndex + 1
      /\ (last'.op = "resetGame" \/ (last'.op = "loadQuiz" /\ last'.result.success)) =>
            currentQuestionIndex' = -1 ]_vars

\* the last question of a quiz was started: the cursor is at its upper bound
C28_Witness ==
  /\ last.op = "getNextQuestion" /\ last.result.kind = "question"
  /\ last.result.questionNumber = 2
  /\ currentQuestionIndex = 1 /\ currentQuestionIndex = Len(quizData) - 1

-----------------------------------------------------------------------------
(* Pause and resume: one quiz, its questions opened and closed, the game      *)
(* paused and resumed, while the clock runs                                   *)

\* the clock advances at most MaxPauseSteps times
MaxPauseSteps == 6

PauseTimeLimits == {Null, 1, 2}

\* no pause was made in the open question
NoPause == -1

\* the state after loadQuiz("two", false, null, timeLimit) and getNextQuestion()
InitPause ==
  /\ quizData = QuizFiles.two
  /\ currentQuestionIndex = 0
  /\ votes = EmptyObj
  /\ scores = EmptyObj
  /\ answeredUsers = {}
  /\ isQuestionActive = TRUE
  /\ questionStartTime = 0
  /\ customTimeLimit \in PauseTimeLimits
  /\ isPaused = FALSE
  /\ pauseStartTime = 0
  /\ totalPausedTime = 0
  /\ answerAnalytics = EmptyAnalytics
  /\ now = 0
  /\ sockets = [s \in SocketIds |-> NoSocket]
  /\ activeSockets = {}
  /\ currentTimer = 0
  /\ timers = [t \in TimerIds |-> NoTimer]
  /\ pendingLaunch = << >>
  /\ last = [op |-> "getNextQuestion", before |-> NoPause, remaining |-> EffectiveTimeLimit]

\* togglePause(); `before` keeps what getRemainingTime() returned right before
\* the pause that is open in the current question
PauseToggle ==
  /\ togglePause
  /\ last' = [op |-> "togglePause",
              result |-> togglePauseResult,
              resumed |-> isQuestionActive /\ isPaused,
              before |-> IF togglePauseResult THEN getRemainingTime ELSE last.before,
              remaining |-> getRemainingTime]
  /\ UNCHANGED <<now, tvars>>

PauseGetNextQuestion ==
  /\ getNextQuestion
  /\ last' = [op |-> "getNextQuestion",
              before |-> IF getNextQuestionStarts THEN NoPause ELSE last.before,
              remaining |-> getRemainingTime]
  /\ UNCHANGED <<now, tvars>>

PauseEndCurrentQuestion ==
  /\ endCurrentQuestion
  /\ last' = [op |-> "endCurrentQuestion", before |-> NoPause,
              remaining |-> getRemainingTime]
  /\ UNCHANGED <<now, tvars>>

\* time passes; `remaining` keeps what getRemainingTime() returned before it did
PauseClock ==
  /\ now < MaxPauseSteps * Step
  /\ now' = now + Step
  /\ last' = [op |-> "clock", before |-> last.before, remaining |-> getRemainingTime]
  /\ UNCHANGED <<svars, tvars>>

NextPause ==
  \/ PauseToggle
  \/ PauseGetNextQuestion
  \/ PauseEndCurrentQuestion
  \/ PauseClock

SpecPause == InitPause /\ [][NextPause]_vars

\* C13 (pause freezes time): right after a resume whose pause was made in the
\* same open question, getRemainingTime() returns what it returned right
\* before that pause, however long the pause lasted
C13_PauseFreezesTime ==
  (last.op = "togglePause" /\ last.resumed /\ last.before # NoPause) =>
    getRemainingTime = last.before

\* a pause of a second or more in a question that had time left
C13_Witness ==
  /\ last.op = "togglePause" /\ last.resumed /\ last.before > 0
  /\ now - pauseStartTime >= TickMs
  /\ now - questionStartTime - totalPausedTime > 0
  /\ getRemainingTime = last.before

\* C14 (pausing freezes the effective elapsed time): while the session is paused
\* getRemainingTime() does not decrease as the clock advances
C14_PausedRemainingSteady ==
  (last.op = "clock" /\ isQuestionActive /\ isPaused /\ last.before # NoPause) =>
    getRemainingTime >= last.remaining

-----------------------------------------------------------------------------
(* Loading: loadQuiz with every kind of argument, from the states a game      *)
(* passes through                                                             *)

\* questionCount as a number runs from 0 to MaxQuestionCount
MaxQuestionCount == 3

QuestionCounts == {QCNull, QCString} \cup { QCNumber(n) : n \in 0 .. MaxQuestionCount }

LoadFileNames == {"three", "empty", "missing"}

LoadTimeLimits == {Null, 30}

\* loadedData after the shuffle of lines 46-48, before the slice
ShuffledData(fileName, shuffle) ==
  IF ~FileReadable(fileName) THEN { << >> }
  ELSE IF shuffle THEN shuffleArray(QuizFiles[fileName])
  ELSE { QuizFiles[fileName] }

\* loadQuiz(fileName, shuffle, questionCount, timeLimit); `shuffled` keeps the
\* sequence the shuffle produced
LoadCall ==
  \E fileName \in LoadFileNames, shuffle \in BOOLEAN,
     questionCount \in QuestionCounts, timeLimit \in LoadTimeLimits :
    \E shuffled \in ShuffledData(fileName, shuffle) :
      /\ loadQuiz(fileName, Truncate(shuffled, questionCount), timeLimit)
      /\ last' = [op |-> "loadQuiz",
                  fileName |-> fileName,
                  questionCount |-> questionCount,
                  timeLimit |-> timeLimit,
                  shuffled |-> shuffled,
                  result |-> loadQuizResult(fileName, shuffle,
                                            Truncate(shuffled, questionCount), timeLimit)]
      /\ UNCHANGED <<now, tvars>>

\* the one player of these games answers with either option
LoadProcessAnswer ==
  \E answerIndex \in AnswerIndexes :
    /\ processAnswer("ann", answerIndex, 0)
    /\ last' = [op |-> "processAnswer", nickname |-> "ann",
                answerIndex |-> answerIndex, timeElapsed |-> 0,
                result |-> processAnswerResult("ann", answerIndex, 0)]
    /\ UNCHANGED <<now, tvars>>

NextLoad ==
  \/ LoadCall
  \/ CallGetNextQuestion
  \/ LoadProcessAnswer
  \/ CallEndCurrentQuestion

SpecLoad == Init /\ [][NextLoad]_vars

\* C18 (successful load): after a loadQuiz that succeeded the cursor is -1, the
\* scores and the analytics are empty, and the effective time limit is the
\* timeLimit given or, without one, the configured 15
C18_LoadResets ==
  (last.op = "loadQuiz" /\ last.result.success) =>
    /\ currentQuestionIndex = -1
    /\ scores = EmptyObj
    /\ answerAnalytics = EmptyAnalytics
    /\ EffectiveTimeLimit = (IF last.timeLimit # Null THEN last.timeLimit ELSE 15)
    /\ last.result.timeLimit = EffectiveTimeLimit

\* a load without a time limit over a game in which a question was answered
C18_Witness ==
  /\ last.op = "loadQuiz" /\ last.result.success /\ last.timeLimit = Null
  /\ isQuestionActive /\ "ann" \in answeredUsers
  /\ scores = EmptyObj /\ EffectiveTimeLimit = 15

\* C19 (failed load): a loadQuiz of a file that cannot be read returns
\* success: false and leaves every field of the session as it was
C19_LoadFailureAtomic ==
  [][ (last'.op = "loadQuiz" /\ ~FileReadable(last'.fileName)) =>
        /\ last'.result.kind = "load" /\ ~last'.result.success
        /\ UNCHANGED svars ]_vars

\* a failed load in a game with a question open and a score earned
C19_Witness ==
  /\ last.op = "loadQuiz" /\ ~last.result.success
  /\ isQuestionActive /\ currentQuestionIndex = 0
  /\ scores # EmptyObj /\ answerAnalytics.totalAnswers > 0

\* C20 (truncation): a questionCount that is a number n with 0 < n < the number
\* of loaded questions keeps the first n questions of the shuffled sequence;
\* "Все", null and any other number keep the whole sequence
C20_Truncation ==
  (last.op = "loadQuiz" /\ last.result.success) =>
    /\ quizData =
         IF /\ last.questionCount.type = "number"
            /\ last.questionCount.n > 0
            /\ last.questionCount.n < Len(last.shuffled)
         THEN [i \in 1 .. last.questionCount.n |-> last.shuffled[i]]
         ELSE last.shuffled
    /\ last.result.questionCount = Len(quizData)

\* two of three questions kept from a sequence the shuffle reordered
C20_Witness ==
  /\ last.op = "loadQuiz" /\ last.result.success
  /\ last.questionCount = QCNumber(2)
  /\ last.shuffled = << Question(3, 2, 0), Question(1, 2, 0), Question(2, 2, 1) >>
  /\ quizData = << Question(3, 2, 0), Question(1, 2, 0) >>

-----------------------------------------------------------------------------
(* Shuffling: shuffleArray on every array of up to MaxShuffleLen questions,   *)
(* and loadQuiz with and without shuffle                                      *)

MaxShuffleLen == 3

\* the questions the arrays are made of; an array may hold one more than once
ShuffleQuestions == { Question(1, 2, 0), Question(2, 2, 1), Question(3, 2, 0) }

ShuffleInputs == UNION { [1 .. n -> ShuffleQuestions] : n \in 0 .. MaxShuffleLen }

\* shuffleArray(input); `array` is the argument as the call leaves it
ShuffleArrayCall ==
  \E input \in ShuffleInputs :
    \E run \in shuffleArrayRuns(input) :
      /\ last' = [op |-> "shuffleArray", input |-> input,
                  array |-> run.array, shuffled |-> run.shuffled]
      /\ UNCHANGED <<svars, now, tvars>>

NextShuffle ==
  \/ ShuffleArrayCall
  \/ LoadCall

SpecShuffle == Init /\ [][NextShuffle]_vars

\* how many times x occurs in s
Occurrences(s, x) == Cardinality({ i \in DOMAIN s : s[i] = x })

\* C21 (shuffle): shuffleArray returns an array of the same length holding
\* every element as many times as the argument does, and leaves the argument
\* as it was; loadQuiz with shuffle = false keeps the order of the file
C21_ShufflePermutes ==
  /\ last.op = "shuffleArray" =>
        /\ last.array = last.input
        /\ Len(last.shuffled) = Len(last.input)
        /\ \A x \in ShuffleQuestions :
              Occurrences(last.shuffled, x) = Occurrences(last.input, x)
  /\ (last.op = "loadQuiz" /\ last.result.success /\ ~last.result.shuffle) =>
        /\ last.shuffled = QuizFiles[last.fileName]
        /\ \A i \in DOMAIN quizData : quizData[i] = QuizFiles[last.fileName][i]

\* an array with a repeated question comes back in another order
C21_Witness ==
  /\ last.op = "shuffleArray"
  /\ last.input = << Question(1, 2, 0), Question(1, 2, 0), Question(2, 2, 1) >>
  /\ last.shuffled = << Question(2, 2, 1), Question(1, 2, 0), Question(1, 2, 0) >>
  /\ last.array = last.input

-----------------------------------------------------------------------------
(* Answers to a question without a correct option: the second question of     *)
(* the file "two" is open and every participant answers it once               *)

\* answerIndex as GameService.processAnswer receives it, -1 included
AnyAnswerIndexes == {-1, 0, 1, 2}

NeverElapsed == {0, TickMs}

\* the state after loadQuiz("two", false, null, timeLimit), getNextQuestion(),
\* endCurrentQuestion() and getNextQuestion()
InitNever ==
  /\ quizData = QuizFiles.two
  /\ currentQuestionIndex = 1
  /\ votes = EmptyObj
  /\ scores = EmptyObj
  /\ answeredUsers = {}
  /\ isQuestionActive = TRUE
  /\ questionStartTime = 0
  /\ customTimeLimit \in ScoreTimeLimits
  /\ isPaused = FALSE
  /\ pauseStartTime = 0
  /\ totalPausedTime = 0
  /\ answerAnalytics = EmptyAnalytics
  /\ now = 0
  /\ sockets = [s \in SocketIds |-> NoSocket]
  /\ activeSockets = {}
  /\ currentTimer = 0
  /\ timers = [t \in TimerIds |-> NoTimer]
  /\ pendingLaunch = << >>
  /\ last = [op |-> "getNextQuestion",
             result |-> [kind |-> "question", question |-> 2, options |-> 2,
                         timeLeft |-> EffectiveTimeLimit, questionNumber |-> 2,
                         totalQuestions |-> 2]]

NeverAnswer ==
  \E nickname \in Nicknames, answerIndex \in AnyAnswerIndexes,
     timeElapsed \in NeverElapsed :
    /\ processAnswer(nickname, answerIndex, timeElapsed)
    /\ last' = [op |-> "processAnswer", nickname |-> nickname,
                answerIndex |-> answerIndex, timeElapsed |-> timeElapsed,
                result |-> processAnswerResult(nickname, answerIndex, timeElapsed)]
    /\ UNCHANGED <<now, tvars>>

SpecNever == InitNever /\ [][NeverAnswer]_vars

\* C24 (never-correct questions): while the question under the cursor has the
\* correct index -1, no accepted answer is judged correct, none earns a score
\* and correctAnswers stays 0
C24_NeverCorrect ==
  (HasIndex(quizData, currentQuestionIndex)
     /\ At(quizData, currentQuestionIndex).correct = -1) =>
    /\ AcceptedAnswer => (~last.result.isCorrect /\ last.result.scoreEarned = 0)
    /\ scores = EmptyObj
    /\ answerAnalytics.correctAnswers = 0

-----------------------------------------------------------------------------
(* The lobby: connections that come and go, ask for the presenter's role and  *)
(* join under a nickname                                                      *)

\* nicknames as the clients send them
RawNicknames == {"ann", " ann", "bob", " "}

\* String.prototype.trim on the nicknames above
Trim(nickname) ==
  IF nickname = " ann" THEN "ann"
  ELSE IF nickname = " " THEN ""
  ELSE nickname

\* validateNickname: the trimmed nickname, "" when the nickname is refused
validateNickname(nickname) ==
  IF nickname = "" THEN ""
  ELSE Trim(nickname)

\* mutation: the nickname is never found taken
isNicknameTaken_Never(s, trimmedNickname) == FALSE

isNicknameTaken(s, trimmedNickname) ==
  \E o \in activeSockets : sockets[o].nickname = trimmedNickname /\ o # s

joinResult(s, nickname) ==
  IF validateNickname(nickname) = "" \/ isNicknameTaken(s, validateNickname(nickname))
  THEN "joinError"
  ELSE "playerListUpdate"

\* the nicknames sent with playerListUpdate
PlayerList(socks, active) ==
  { socks[o].nickname : o \in { a \in active : socks[a].nickname # "" } }

Join(s, nickname) ==
  /\ sockets[s].connected
  /\ IF joinResult(s, nickname) = "joinError"
     THEN UNCHANGED <<sockets, activeSockets>>
     ELSE /\ sockets' = [sockets EXCEPT ![s].nickname = validateNickname(nickname)]
          /\ activeSockets' = activeSockets \cup {s}
  /\ last' = [op |-> "join", socket |-> s, nickname |-> nickname,
              result |-> joinResult(s, nickname)]
  /\ UNCHANGED <<svars, now, currentTimer, timers, pendingLaunch>>

LobbyAuthenticateHost(s, password) ==
  /\ sockets[s].connected
  /\ IF authenticateHostResult(s, password) = "success"
     THEN /\ sockets' = [sockets EXCEPT ![s].isHost = TRUE]
          /\ activeSockets' = activeSockets \cup {s}
     ELSE UNCHANGED <<sockets, activeSockets>>
  /\ last' = [op |-> "authenticateHost", socket |-> s, password |-> password,
              result |-> authenticateHostResult(s, password)]
  /\ UNCHANGED <<svars, now, currentTimer, timers, pendingLaunch>>

NextLobby ==
  \E s \in SocketIds :
    \/ Connection(s)
    \/ Disconnect(s)
    \/ \E password \in Passwords : LobbyAuthenticateHost(s, password)
    \/ \E nickname \in RawNicknames : Join(s, nickname)

SpecLobby == Init /\ [][NextLobby]_vars

ConnectedHosts(socks) == { s \in SocketIds : socks[s].connected /\ socks[s].isHost }

\* C26 (single host): at most one connected socket is the presenter; a request
\* with the right password made while another connected socket is the presenter
\* is answered already_host and changes nothing; with no presenter connected
\* the right password makes the asking socket the presenter
C26_SingleHost ==
  [][ /\ Cardinality(ConnectedHosts(sockets')) <= 1
      /\ (last'.op = "authenticateHost" /\ last'.password = HOST_PASSWORD) =>
            IF ConnectedHosts(sockets) \ {last'.socket} # {}
            THEN /\ last'.result = "already_host"
                 /\ sockets' = sockets /\ activeSockets' = activeSockets
            ELSE ConnectedHosts(sockets) = {} =>
                   /\ last'.result = "success"
                   /\ ConnectedHosts(sockets') = {last'.socket} ]_vars

\* the second socket is the presenter; the first, which had joined, asked too
C26_Witness ==
  /\ last.op = "authenticateHost" /\ last.socket = "s1"
  /\ last.password = HOST_PASSWORD /\ last.result = "already_host"
  /\ ConnectedHosts(sockets) = {"s2"}
  /\ sockets["s1"].connected /\ sockets["s1"].nickname = "ann"

\* C27 (nickname uniqueness): no two connected sockets hold the same nickname;
\* a join under a nickname that another connected socket holds is answered
\* joinError and changes no socket and no player list
C27_UniqueNicknames ==
  [][ /\ \A a, b \in SocketIds :
           (a # b /\ sockets'[a].connected /\ sockets'[b].connected
              /\ sockets'[a].nickname # "")
             => sockets'[a].nickname # sockets'[b].nickname
      /\ (last'.op = "join"
            /\ \E o \in SocketIds \ {last'.socket} :
                  /\ sockets[o].connected /\ sockets[o].nickname # ""
                  /\ sockets[o].nickname = Trim(last'.nickname)) =>
            /\ last'.result = "joinError"
            /\ sockets' = sockets
            /\ PlayerList(sockets', activeSockets') = PlayerList(sockets, activeSockets)
    ]_vars

\* the nickname of the other player, sent with a leading blank, was refused
C27_Witness ==
  /\ last.op = "join" /\ last.socket = "s2" /\ last.nickname = " ann"
  /\ last.result = "joinError"
  /\ sockets["s1"].connected /\ sockets["s1"].nickname = "ann"
  /\ sockets["s2"].connected /\ sockets["s2"].nickname = "bob"

-----------------------------------------------------------------------------
(* The standings: two participants answer the two questions of a quiz that    *)
(* the presenter opens, pauses and closes                                     *)

Players == {"ann", "bob"}

\* an answer at once, one inside the decay, and a late one
StandingsElapsed == {0, 7500, 20000}

\* the state after loadQuiz("three", false, 2, null) and getNextQuestion()
InitStandings ==
  /\ quizData = Truncate(QuizFiles.three, QCNumber(2))
  /\ currentQuestionIndex = 0
  /\ votes = EmptyObj
  /\ scores = EmptyObj
  /\ answeredUsers = {}
  /\ isQuestionActive = TRUE
  /\ questionStartTime = 0
  /\ customTimeLimit = Null
  /\ isPaused = FALSE
  /\ pauseStartTime = 0
  /\ totalPausedTime = 0
  /\ answerAnalytics = EmptyAnalytics
  /\ now = 0
  /\ sockets = [s \in SocketIds |-> NoSocket]
  /\ activeSockets = {}
  /\ currentTimer = 0
  /\ timers = [t \in TimerIds |-> NoTimer]
  /\ pendingLaunch = << >>
  /\ last = [op |-> "getNextQuestion",
             result |-> [kind |-> "question", question |-> 1, options |-> 2,
                         timeLeft |-> EffectiveTimeLimit, questionNumber |-> 1,
                         totalQuestions |-> 2]]

StandingsAnswer ==
  \E nickname \in Players, answerIndex \in AnswerIndexes,
     timeElapsed \in StandingsElapsed :
    /\ processAnswer(nickname, answerIndex, timeElapsed)
    /\ last' = [op |-> "processAnswer", nickname |-> nickname,
                answerIndex |-> answerIndex, timeElapsed |-> timeElapsed,
                result |-> processAnswerResult(nickname, answerIndex, timeElapsed)]
    /\ UNCHANGED <<now, tvars>>

NextStandings ==
  \/ StandingsAnswer
  \/ CallGetNextQuestion
  \/ CallEndCurrentQuestion
  \/ CallTogglePause

SpecStandings == InitStandings /\ [][NextStandings]_vars

\* C29 (scores persist and only grow): no step lowers the score of a
\* participant; a score changes only in an accepted correct answer of that
\* participant to an active question, by the score the answer earned; the
\* scores of the others, and all scores in getNextQuestion, endCurrentQuestion
\* and togglePause, stay as they are
C29_ScoresOnlyGrow ==
  [][ /\ \A p \in Players : GetOr0(scores', p) >= GetOr0(scores, p)
      /\ \A p \in Players :
            GetOr0(scores', p) # GetOr0(scores, p) =>
              /\ last'.op = "processAnswer" /\ last'.nickname = p
              /\ last'.result.success /\ last'.result.isCorrect
              /\ isQuestionActive
      /\ (last'.op = "processAnswer") =>
            /\ GetOr0(scores', last'.nickname)
                 = GetOr0(scores, last'.nickname) + last'.result.scoreEarned
            /\ last'.result.success \/ last'.result.scoreEarned = 0
      /\ DOMAIN scores \subseteq DOMAIN scores'
      /\ last'.op \in {"getNextQuestion", "endCurrentQuestion", "togglePause"} =>
            scores' = scores ]_vars

\* a second correct answer of a participant, added to the first, while the
\* other participant keeps the score of one answer
C29_Witness ==
  /\ AcceptedAnswer /\ last.nickname = "ann" /\ last.result.isCorrect
  /\ currentQuestionIndex = 1
  /\ last.result.scoreEarned = 60
  /\ GetOr0(scores, "ann") = 160 /\ GetOr0(scores, "bob") = 20

-----------------------------------------------------------------------------
(* Properties of the session state                                           *)

\* C36 (remaining-time bound): getRemainingTime() is 0 while no question is
\* active and between 0 and the effective time limit while one is
C36_RemainingBound ==
  IF isQuestionActive
  THEN 0 <= getRemainingTime /\ getRemainingTime <= EffectiveTimeLimit
  ELSE getRemainingTime = 0

\* C37 (active implies a current question): while a question is active the
\* cursor designates a question of the quiz
C37_ActiveHasQuestion ==
  isQuestionActive => HasIndex(quizData, currentQuestionIndex)

-----------------------------------------------------------------------------
(* Properties of the presenter's handlers                                    *)

\* C33 (quizFinished): quizFinished is sent only when no question is active and
\* the cursor is on the last question of the quiz
C33_QuizFinishedWhenExhausted ==
  (last.op \in {"nextQuestion", "launchNextQuestion"} /\ last.result = "quizFinished") =>
    /\ ~isQuestionActive
    /\ currentQuestionIndex = Len(quizData) - 1

-----------------------------------------------------------------------------
(* The players: connections that join, answer the open question and leave,    *)
(* while the presenter starts, pauses and stops the questions                 *)

\* the connections of the players
PlayerSockets == {"s2", "s3"}

\* the nicknames each player joins under: the first one changes hers
PlayerNicknames == [s2 |-> {"ann", "bob"}, s3 |-> {"carl"}]

SubmitIndexes == {0}

\* the clock of the players' games advances at most PlayerSteps times
PlayerSteps == 2

\* (now - gameService.questionStartTime) / 1000, kept in milliseconds
submitTimeElapsed == now - questionStartTime

\* the early returns of lines 372-402
submitAnswerProceeds(s, index) ==
  /\ isQuestionActive
  /\ sockets[s].nickname # ""
  /\ submitTimeElapsed <= 1000 * TIME_LIMIT_DEFAULT + 500
  /\ ~sockets[s].answered
  /\ HasIndex(quizData, currentQuestionIndex)
  /\ index >= 0 /\ index < At(quizData, currentQuestionIndex).options
  /\ submitTimeElapsed >= 0 /\ submitTimeElapsed <= 4 * 1000 * TIME_LIMIT_DEFAULT

totalPlayers == Cardinality({ o \in activeSockets : sockets[o].nickname # "" })

\* lines 422-424, read after processAnswer has recorded the answer
allAnswered(s) ==
  /\ Cardinality(answeredUsers \cup {sockets[s].nickname}) >= totalPlayers
  /\ totalPlayers > 0

SubmitAnswer(s, index) ==
  /\ sockets[s].connected
  /\ submitAnswerProceeds(s, index)
  /\ LET nickname == sockets[s].nickname
         result   == processAnswerResult(nickname, index, submitTimeElapsed)
         ends     == result.success /\ allAnswered(s)
     IN  /\ sockets' = [sockets EXCEPT ![s].answered = TRUE]
         /\ IF ends
            THEN /\ processAnswerRecords(nickname, index, submitTimeElapsed)
                 /\ isQuestionActive' = FALSE
                 /\ UNCHANGED <<quizData, currentQuestionIndex, questionStartTime,
                                customTimeLimit, isPaused, pauseStartTime,
                                totalPausedTime>>
            ELSE processAnswer(nickname, index, submitTimeElapsed)
         /\ timers' = Collect
         /\ last' = [op |-> "submitAnswer", socket |-> s, nickname |-> nickname,
                     answerIndex |-> index, timeElapsed |-> submitTimeElapsed,
                     result |-> result,
                     end |-> IF ends THEN "timeOver" ELSE "none"]
         /\ UNCHANGED <<now, activeSockets, currentTimer, pendingLaunch>>

\* the state after the presenter has connected on s1, authenticated and
\* selected the quiz "two" with a time limit of 1 s
InitPlayers ==
  /\ quizData = QuizFiles.two
  /\ currentQuestionIndex = -1
  /\ votes = EmptyObj
  /\ scores = EmptyObj
  /\ answeredUsers = {}
  /\ isQuestionActive = FALSE
  /\ questionStartTime = 0
  /\ customTimeLimit \in TransportTimeLimits
  /\ isPaused = FALSE
  /\ pauseStartTime = 0
  /\ totalPausedTime = 0
  /\ answerAnalytics = EmptyAnalytics
  /\ now = 0
  /\ sockets = [s \in SocketIds |->
                  IF s \in HostSockets
                  THEN [NoSocket EXCEPT !.connected = TRUE, !.isHost = TRUE]
                  ELSE NoSocket]
  /\ activeSockets = HostSockets
  /\ currentTimer = 0
  /\ timers = [t \in TimerIds |-> NoTimer]
  /\ pendingLaunch = << >>
  /\ last = [op |-> "selectQuiz",
             result |-> loadQuizResult("two", FALSE, QuizFiles.two, customTimeLimit)]

NextPlayers ==
  \/ \E s \in PlayerSockets : Connection(s)
  \/ \E s \in PlayerSockets : Disconnect(s)
  \/ \E s \in PlayerSockets : \E nickname \in PlayerNicknames[s] : Join(s, nickname)
  \/ \E s \in PlayerSockets, index \in SubmitIndexes : SubmitAnswer(s, index)
  \/ \E s \in HostSockets : NextQuestion(s)
  \/ LaunchFire
  \/ \E t \in TimerIds : TimerFire(t)
  \/ ClockStep(PlayerSteps)

SpecPlayers == InitPlayers /\ [][NextPlayers]_vars

\* the players that are connected and have joined
JoinedPlayers == { p \in SocketIds : sockets[p].connected /\ sockets[p].nickname # "" }

\* C34 (all-answered rule): when an accepted answer has ended the question,
\* every player that is connected and has joined has answered it, on this
\* connection or under the nickname it holds
C34_AllAnswered ==
  (last.op = "submitAnswer" /\ last.end = "timeOver") =>
    \A p \in JoinedPlayers :
      sockets[p].answered \/ sockets[p].nickname \in answeredUsers

\* C39 (ticks are coupled to the active question): a timerTick is broadcast
\* only while a question is active; after a question has ended no interval
\* ticks until the next question is started
C39_TicksOnlyWhileActive ==
  [][last'.op = "timerTick" => isQuestionActive]_vars

-----------------------------------------------------------------------------
(* Answers and the pause: one player answers while the presenter pauses and   *)
(* resumes the question                                                       *)

\* the clock of these games advances at most PausedAnswerSteps times
PausedAnswerSteps == 3

NextPausedAnswers ==
  \/ Connection("s2")
  \/ Join("s2", "ann")
  \/ \E index \in SubmitIndexes : SubmitAnswer("s2", index)
  \/ \E s \in HostSockets : NextQuestion(s)
  \/ LaunchFire
  \/ \E s \in HostSockets : TogglePause(s)
  \/ \E t \in TimerIds : TimerFire(t)
  \/ ClockStep(PausedAnswerSteps)

SpecPausedAnswers == InitPlayers /\ [][NextPausedAnswers]_vars

\* the time the session has spent paused: the completed pauses and the one
\* in progress
PausedTime ==
  totalPausedTime + (IF isPaused THEN now - pauseStartTime ELSE 0)

\* C31 (pause suspends the elapsed time of answers): the elapsed time that the
\* submitAnswer handler passes on for an answer to the first question is the
\* time since the question started less the time spent paused
C31_ElapsedExcludesPause ==
  (last.op = "submitAnswer" /\ currentQuestionIndex = 0) =>
    last.timeElapsed = now - questionStartTime - PausedTime

-----------------------------------------------------------------------------
(* Late answers: a quiz selected with a time limit above the default one      *)

\* the time limit sent with selectQuiz, in seconds
LateTimeLimits == {30}

\* the clock of these games advances at most LateSteps times (17 s)
LateSteps == 34

\* the state after the presenter has selected the quiz "two" with one of the
\* time limits and one player has joined as ann
InitJoined(timeLimits) ==
  /\ quizData = QuizFiles.two
  /\ currentQuestionIndex = -1
  /\ votes = EmptyObj
  /\ scores = EmptyObj
  /\ answeredUsers = {}
  /\ isQuestionActive = FALSE
  /\ questionStartTime = 0
  /\ customTimeLimit \in timeLimits
  /\ isPaused = FALSE
  /\ pauseStartTime = 0
  /\ totalPausedTime = 0
  /\ answerAnalytics = EmptyAnalytics
  /\ now = 0
  /\ sockets = [s \in SocketIds |->
                  IF s \in HostSockets
                  THEN [NoSocket EXCEPT !.connected = TRUE, !.isHost = TRUE]
                  ELSE IF s = "s2"
                  THEN [NoSocket EXCEPT !.connected = TRUE, !.nickname = "ann"]
                  ELSE NoSocket]
  /\ activeSockets = HostSockets \cup {"s2"}
  /\ currentTimer = 0
  /\ timers = [t \in TimerIds |-> NoTimer]
  /\ pendingLaunch = << >>
  /\ last = [op |-> "join", socket |-> "s2", nickname |-> "ann",
             result |-> "playerListUpdate"]

InitLate == InitJoined(LateTimeLimits)

NextLate ==
  \/ \E index \in SubmitIndexes : SubmitAnswer("s2", index)
  \/ \E s \in HostSockets : NextQuestion(s)
  \/ LaunchFire
  \/ \E t \in TimerIds : TimerFire(t)
  \/ ClockStep(LateSteps)

SpecLate == InitLate /\ [][NextLate]_vars

\* C38 (the transport honours the time limit of the session): while a question
\* of a quiz loaded with the limit T is active and at most T seconds old, the
\* first answer of a joined player with a valid option index passes the checks
\* of the submitAnswer handler and reaches processAnswer
C38_AnswerWithinLimitAdmitted ==
  \A p \in JoinedPlayers, index \in SubmitIndexes :
    ( /\ customTimeLimit # Null
      /\ isQuestionActive
      /\ HasIndex(quizData, currentQuestionIndex)
      /\ ~sockets[p].answered
      /\ submitTimeElapsed >= 0
      /\ submitTimeElapsed <= 1000 * customTimeLimit )
    => submitAnswerProceeds(p, index)

-----------------------------------------------------------------------------
(* Every question ends: the presenter starts and stops questions, leaves and  *)
(* comes back, while the clock, the intervals and the timeouts keep running   *)

\* the clock of these games advances at most EndSteps times
EndSteps == 6

NextEnds ==
  \/ \E s \in HostSockets : Connection(s)
  \/ \E s \in HostSockets, password \in Passwords : AuthenticateHost(s, password)
  \/ \E s \in HostSockets : Disconnect(s)
  \/ \E s \in HostSockets : NextQuestion(s)
  \/ LaunchFire
  \/ \E t \in TimerIds : TimerFire(t)
  \/ ClockStep(EndSteps)

\* time passes, and the event loop runs every interval callback and every
\* timeout that is due
SpecEnds ==
  /\ InitPlayers
  /\ [][NextEnds]_vars
  /\ WF_vars(ClockStep(EndSteps))
  /\ WF_vars(\E t \in TimerIds : TimerFire(t))
  /\ WF_vars(LaunchFire)

\* a question that is open at EndHorizon or before has the time to run out
\* before the clock stops
EndHorizon == EndSteps * Step - TickMs

\* C35 (every question ends): a question that is active while the game is not
\* paused is eventually not active, also when the presenter has disconnected
\* or reconnected in between
C35_EveryQuestionEnds ==
  (isQuestionActive /\ ~isPaused /\ now <= EndHorizon) ~> ~isQuestionActive

-----------------------------------------------------------------------------
(* The transport that starts a bare interval per question                     *)
(* (src/routes/socketRoutes.js): no handler keeps a reference to the interval *)

\* the clock of these games advances at most BareSteps times
BareSteps == 4

\* updateQuestion and setInterval: the intervals that exist belong to earlier
\* questions from now on
bareStartTimer ==
  LET old == [t \in TimerIds |-> [Collect[t] EXCEPT !.stale = Collect[t].exists]]
  IN  startQuestionTimer(old, FreeSlot(old), EffectiveTimeLimit)

\* getNextQuestion() and what follows it, run at once or by the timeout
bareLaunch(op) ==
  /\ getNextQuestion
  /\ IF getNextQuestionStarts
     THEN /\ HasFreeSlot(Collect)
          /\ sockets' = resetAnswerFlags
          /\ timers' = bareStartTimer
          /\ last' = [op |-> op, result |-> "updateQuestion"]
     ELSE /\ timers' = Collect
          /\ last' = [op |-> op, result |-> "quizFinished"]
          /\ UNCHANGED sockets

BareNextQuestion(s) ==
  /\ sockets[s].connected
  /\ sockets[s].isHost
  /\ IF isQuestionActive
     THEN /\ endCurrentQuestion
          /\ IF endCurrentQuestionResult.kind = "throw"
             THEN UNCHANGED pendingLaunch
             ELSE /\ Len(pendingLaunch) < MaxPending
                  /\ pendingLaunch' = Append(pendingLaunch, now + LaunchDelay)
          /\ timers' = Collect
          /\ last' = [op |-> "nextQuestion", result |-> endCurrentQuestionResult.kind]
          /\ UNCHANGED sockets
     ELSE /\ bareLaunch("nextQuestion")
          /\ UNCHANGED pendingLaunch
  /\ UNCHANGED <<now, activeSockets, currentTimer>>

\* the callback of setTimeout(..., 500)
BareLaunchFire ==
  /\ pendingLaunch # << >>
  /\ Head(pendingLaunch) <= now
  /\ Earliest(Head(pendingLaunch))
  /\ pendingLaunch' = Tail(pendingLaunch)
  /\ bareLaunch("launchNextQuestion")
  /\ UNCHANGED <<now, activeSockets, currentTimer>>

\* the callback of setInterval of the interval in slot t
BareTimerFire(t) ==
  /\ timers[t].running
  /\ timers[t].due <= now
  /\ Earliest(timers[t].due)
  /\ LET timeLeft == timers[t].timeLeft - 1
         zero     == timeLeft <= 0
     IN  /\ timers' = [Collect EXCEPT ![t] =
                         [@ EXCEPT !.timeLeft = timeLeft,
                                   !.ticks = @ + 1,
                                   !.running = ~zero,
                                   !.due = IF zero THEN @ ELSE @ + TickMs,
                                   !.ends = IF zero THEN @ + 1 ELSE @]]
         /\ IF zero THEN endCurrentQuestion ELSE UNCHANGED svars
         /\ last' = [op |-> "timerTick", timer |-> t, timeLeft |-> timeLeft,
                     stale |-> timers[t].stale,
                     concurrent |-> \E u \in TimerIds \ {t} :
                                      timers[u].running /\ ~timers[u].stale,
                     end |-> IF zero THEN endCurrentQuestionResult.kind ELSE "none"]
  /\ UNCHANGED <<now, sockets, activeSockets, currentTimer, pendingLaunch>>

\* the early returns of the submitAnswer handler: the nickname is not looked at
bareSubmitAnswerProceeds(s, index) ==
  /\ isQuestionActive
  /\ submitTimeElapsed <= 1000 * TIME_LIMIT_DEFAULT + 500
  /\ ~sockets[s].answered
  /\ HasIndex(quizData, currentQuestionIndex)
  /\ index >= 0 /\ index < At(quizData, currentQuestionIndex).options
  /\ submitTimeElapsed >= 0 /\ submitTimeElapsed <= 4 * 1000 * TIME_LIMIT_DEFAULT

BareSubmitAnswer(s, index) ==
  /\ sockets[s].connected
  /\ bareSubmitAnswerProceeds(s, index)
  /\ LET nickname == sockets[s].nickname
         result   == processAnswerResult(nickname, index, submitTimeElapsed)
         ends     == result.success /\ allAnswered(s)
     IN  /\ sockets' = [sockets EXCEPT ![s].answered = TRUE]
         /\ IF ends
            THEN /\ processAnswerRecords(nickname, index, submitTimeElapsed)
                 /\ isQuestionActive' = FALSE
                 /\ UNCHANGED <<quizData, currentQuestionIndex, questionStartTime,
                                customTimeLimit, isPaused, pauseStartTime,
                                totalPausedTime>>
            ELSE processAnswer(nickname, index, submitTimeElapsed)
         /\ timers' = Collect
         /\ last' = [op |-> "submitAnswer", socket |-> s, nickname |-> nickname,
                     answerIndex |-> index, timeElapsed |-> submitTimeElapsed,
                     result |-> result,
                     end |-> IF ends THEN "timeOver" ELSE "none"]
         /\ UNCHANGED <<now, activeSockets, currentTimer, pendingLaunch>>

InitBare == InitJoined(TransportTimeLimits)

NextBare ==
  \/ \E s \in HostSockets : BareNextQuestion(s)
  \/ BareLaunchFire
  \/ \E t \in TimerIds : BareTimerFire(t)
  \/ \E index \in SubmitIndexes : BareSubmitAnswer("s2", index)
  \/ ClockStep(BareSteps)

SpecBare == InitBare /\ [][NextBare]_vars

\* C32 (bare intervals): the interval of a question that the presenter stopped
\* or that all players answered never ends a later question that is active, and
\* never ticks while the interval of the later question is running
C32_BareIntervalStopped ==
  (last.op = "timerTick" /\ last.stale) =>
    /\ last.end \in {"none", "null"}
    /\ ~last.concurrent

====
